---- MODULE Spec2Model ----
(***************************************************************************)
(* Dataset-preparation scripts of preprocessing_exclude.                   *)
(*                                                                         *)
(*   SpecSafe    is_safe_split_location applied to a file and an index     *)
(*   SpecSplit   the scanning loop of find_safe_split_points               *)
(*   SpecLabels  generate_labels.process_single_file over a label folder   *)
(*   SpecMain    main.process_and_save_sample over the output folders      *)
(*   SpecCopy    prepare_headers.find_and_copy_headers, run twice          *)
(*   SpecVerify  verify_jsonl.verify_jsonl_file on one file                *)
(*   SpecTasks   main.create_generation_tasks over a rules dictionary     *)
(*   SpecData    the header dataset scripts run one after another          *)
(*                                                                         *)
(* A line of text is a sequence of characters, each character a string.    *)
(* Line indices are 0-based as in the Python source; At(lines, k) reads    *)
(* lines[k].                                                               *)
(***************************************************************************)
EXTENDS Integers, Sequences, FiniteSets, TLC

VARIABLES
    lines,            \* split_large_headers: the file, a list of lines (keepends)
    line_idx,         \* SpecSafe: argument of is_safe_split_location
    ret,              \* SpecSafe: its return value ("none" before the call)
    threshold_bytes,  \* find_safe_split_points argument
    min_part_bytes,   \* find_safe_split_points argument
    i,                \* find_safe_split_points: loop index
    current_size,     \* find_safe_split_points: bytes since the last split
    split_points,     \* find_safe_split_points: result list
    split_kind,       \* branch that appended each split point: "safe" | "forced"
    pc,               \* position of the running function
    header_file,      \* generate_labels: input_headers/<h>.h, per header
    json_file,        \* generate_labels: output_labels/<h>.json, per header
    txt_file,         \* generate_labels: output_labels/<h>.txt, per header
    lpc,              \* process_single_file: "idle" | "attempt" | "returned", per header
    attempt,          \* process_single_file: loop variable of the retry loop
    result,           \* process_single_file: the (bool, message) pair returned
    ask_calls,        \* GeminiHandler.ask calls made by the current call
    last_ask,         \* how the latest attempt of the current call went, per header
    task,             \* main/test: the task the calls are made for
    described,        \* main: the rule pattern of the generation task has 'description'
    code_file,        \* main/test: <code dir>/<filename>.swift of the task
    input_file,       \* main/test: <inputs dir>/<filename>.txt of the task
    label_file,       \* main/test: <labels dir>/<filename>.json of the task
    mpc,              \* "idle" | "returned" | "assembled" | "aborted"
    outcome,          \* the return statement the last call left by
    last_call,        \* the external calls the last call made
    dataset,          \* main/test: the entries of the final .jsonl made from the task
    header_files,     \* prepare_headers: the .h files rglob finds, in its order
    dest_dir,         \* prepare_headers: the destination folder, name -> content
    next_header,      \* prepare_headers: position of the loop over header_files
    run,              \* prepare_headers: 1 in the first run, 2 in the second
    total_copied_count, \* prepare_headers: files copied by the current run
    first_run_dest,   \* prepare_headers: dest_dir as the first run left it
    jsonl_file,       \* verify_jsonl: the file at file_path
    detailed_analysis, \* verify_jsonl_file argument
    total_lines,      \* verify_jsonl_file: lines read so far
    empty_lines,      \* verify_jsonl_file counter
    valid_lines,      \* verify_jsonl_file counter
    invalid_lines,    \* verify_jsonl_file counter
    structure_issues, \* verify_jsonl_file counter
    vpc,              \* verify_jsonl_file: "idle" | "reading" | "summary" | "returned"
    verdict,          \* verify_jsonl_file: return value and the message printed last
    input_headers,    \* the folder ./input_headers
    processed_headers, \* the folder ./processed_headers
    output_labels,    \* the .json files of the folder ./output_labels
    header_jsonl,     \* the file ./header.jsonl
    entry_of,         \* the header each line written by the latest build_alpaca_dataset is for
    placed,           \* the names the latest split_large_files wrote to processed_headers
    history,          \* the scripts run so far, in order
    rules,            \* create_generation_tasks argument: the rules dictionary, in its order
    tasks,            \* create_generation_tasks: the list it returns
    gpc               \* create_generation_tasks: "idle" | "returned"

splitVars == <<lines, line_idx, ret, threshold_bytes, min_part_bytes, i,
               current_size, split_points, split_kind, pc>>

labelVars == <<header_file, json_file, txt_file, lpc, attempt, result, ask_calls,
               last_ask>>

mainVars == <<task, described, code_file, input_file, label_file, mpc, outcome, last_call,
              dataset>>

copyVars == <<header_files, dest_dir, next_header, run, total_copied_count,
              first_run_dest>>

verifyVars == <<jsonl_file, detailed_analysis, total_lines, empty_lines, valid_lines,
                invalid_lines, structure_issues, vpc, verdict>>

dataVars == <<input_headers, processed_headers, output_labels, header_jsonl, entry_of,
              placed, history>>

taskVars == <<rules, tasks, gpc>>

moreVars == <<copyVars, verifyVars, dataVars, taskVars>>

\* what an action of one script leaves alone
copyFrame == <<splitVars, labelVars, mainVars, verifyVars, dataVars, taskVars>>
verifyFrame == <<splitVars, labelVars, mainVars, copyVars, dataVars, taskVars>>
dataFrame == <<splitVars, labelVars, mainVars, copyVars, verifyVars, taskVars>>
taskFrame == <<splitVars, labelVars, mainVars, copyVars, verifyVars, dataVars>>

vars == <<splitVars, labelVars, mainVars, moreVars>>

\* prepare_headers is not part of this specification
CopyIdle ==
    /\ header_files = <<>>
    /\ dest_dir = <<>>
    /\ next_header = 0
    /\ run = 0
    /\ total_copied_count = 0
    /\ first_run_dest = <<>>

\* verify_jsonl is not part of this specification
VerifyIdle ==
    /\ jsonl_file = <<>>
    /\ detailed_analysis = FALSE
    /\ total_lines = 0
    /\ empty_lines = 0
    /\ valid_lines = 0
    /\ invalid_lines = 0
    /\ structure_issues = 0
    /\ vpc = "idle"
    /\ verdict = <<>>

\* the header dataset scripts are not part of this specification
DataIdle ==
    /\ input_headers = <<>>
    /\ processed_headers = <<>>
    /\ output_labels = <<>>
    /\ header_jsonl = <<>>
    /\ entry_of = <<>>
    /\ placed = {}
    /\ history = <<>>

\* create_generation_tasks is not part of this specification
TaskIdle ==
    /\ rules = <<>>
    /\ tasks = <<>>
    /\ gpc = "idle"

MoreIdle == CopyIdle /\ VerifyIdle /\ DataIdle /\ TaskIdle

-----------------------------------------------------------------------------
(* Characters and strings                                                   *)

\* str.strip() without arguments removes these (ASCII whitespace of the model)
Whitespace == {" ", "\t", "\n", "\r"}

\* code points that take two bytes in UTF-8 (here: e with acute accent)
TwoByteChars == {"e-acute"}

Max(a, b) == IF a >= b THEN a ELSE b
Min(a, b) == IF a <= b THEN a ELSE b

At(s, k) == s[k + 1]

RECURSIVE LStrip(_)
LStrip(s) ==
    IF s = <<>> THEN <<>>
    ELSE IF Head(s) \in Whitespace THEN LStrip(Tail(s)) ELSE s

RECURSIVE RStrip(_)
RStrip(s) ==
    IF s = <<>> THEN <<>>
    ELSE IF s[Len(s)] \in Whitespace THEN RStrip(SubSeq(s, 1, Len(s) - 1)) ELSE s

\* line.strip()
Strip(s) == RStrip(LStrip(s))

\* len(line.encode('utf-8'))
RECURSIVE Utf8Len(_)
Utf8Len(s) ==
    IF s = <<>> THEN 0
    ELSE (IF Head(s) \in TwoByteChars THEN 2 ELSE 1) + Utf8Len(Tail(s))

StartsWith(s, p) == Len(s) >= Len(p) /\ SubSeq(s, 1, Len(p)) = p
EndsWith(s, p) == Len(s) >= Len(p) /\ SubSeq(s, Len(s) - Len(p) + 1, Len(s)) = p

\* regex  X$  : X at the end of the string, or just before a final newline
AtDollar(s, p) == EndsWith(s, p) \/ EndsWith(s, p \o <<"\n">>)

\* regex  .*[c1c2..]$
EndsInClass(s, cls) == \E c \in cls : AtDollar(s, <<c>>)

\* regex  .*word\s*$
EndsWithWord(s, w) == EndsWith(RStrip(s), w)

\* regex  ^\s*word
BeginsWithWord(s, w) == StartsWith(LStrip(s), w)

WParameters == <<"P", "a", "r", "a", "m", "e", "t", "e", "r", "s", ":">>
WDiscussion == <<"D", "i", "s", "c", "u", "s", "s", "i", "o", "n", ":">>
WResult == <<"R", "e", "s", "u", "l", "t", ":">>
WEndif == <<"#", "e", "n", "d", "i", "f">>

\* unsafe_patterns, tried with re.search on a stripped line
MatchesUnsafe(s) ==
    \/ EndsInClass(s, {",", "\\", "*"})            \* r'.*[,\\*]$'
    \/ EndsInClass(s, {"("})                       \* r'.*\($'
    \/ EndsInClass(s, {"{"})                       \* r'.*\{$'
    \/ BeginsWithWord(s, <<"*">>)                  \* r'^\s*\*'
    \/ BeginsWithWord(s, <<"-", "-", ">">>)        \* r'^\s*(-->|<--)'
    \/ BeginsWithWord(s, <<"<", "-", "-">>)
    \/ EndsWithWord(s, WParameters)                \* r'.*Parameters:\s*$'
    \/ EndsWithWord(s, WDiscussion)                \* r'.*Discussion:\s*$'
    \/ EndsWithWord(s, WResult)                    \* r'.*Result:\s*$'

\* safe_end_patterns with the #endif pattern left out
SafeEndNoEndif(s) ==
    \/ Strip(s) = <<"*", "/">>
    \/ Strip(s) = <<"}", ";">>
    \/ EndsWithWord(s, <<";">>)

\* safe_end_patterns, tried with re.search on the stripped previous line
MatchesSafeEnd(s) ==
    \/ Strip(s) = <<"*", "/">>                     \* r'^\s*\*/\s*$'
    \/ BeginsWithWord(s, WEndif)                   \* r'^\s*#endif'
    \/ Strip(s) = <<"}", ";">>                     \* r'^\s*};\s*$'
    \/ EndsWithWord(s, <<";">>)                    \* r'.*;\s*$'

\* context_lines: the stripped lines of the window [line_idx-3, line_idx+3].
\* The function builds this list and never reads it.
context_lines(ls, idx) ==
    [k \in 1..(Min(Len(ls), idx + 4) - Max(0, idx - 3)) |->
        Strip(At(ls, Max(0, idx - 3) + k - 1))]

\* the "previous lines" loop starting one line late: range(max(0, line_idx - 1), line_idx)
PrevLinesFromOne(idx) == Max(0, idx - 1)

\* first index of the "previous lines" loop: range(max(0, line_idx - 2), line_idx)
PrevLinesFrom(idx) == Max(0, idx - 2)

\* the "previous lines" loop: some non-empty stripped line matches an unsafe pattern
PrevLinesUnsafe(ls, idx) ==
    \E k \in PrevLinesFrom(idx)..(idx - 1) :
        /\ k < Len(ls)
        /\ Strip(At(ls, k)) # <<>>
        /\ MatchesUnsafe(Strip(At(ls, k)))

\* is_safe_split_location with the safe-end test applied to the candidate line
\* itself instead of the line before it
SafeEndOffByOne(ls, idx) ==
    IF idx >= Len(ls) \/ Strip(At(ls, idx)) # <<>> THEN FALSE
    ELSE IF PrevLinesUnsafe(ls, idx) THEN FALSE
    ELSE idx > 0 /\ MatchesSafeEnd(Strip(At(ls, idx)))

\* is_safe_split_location(lines, line_idx)
is_safe_split_location(ls, idx) ==
    IF idx >= Len(ls) \/ Strip(At(ls, idx)) # <<>> THEN FALSE
    ELSE IF PrevLinesUnsafe(ls, idx) THEN FALSE
    ELSE idx > 0 /\ MatchesSafeEnd(Strip(At(ls, idx - 1)))

-----------------------------------------------------------------------------
(* Header lines the files of the model are made of                          *)

LnBlank == <<"\n">>
LnSpaces == <<" ", " ", "\n">>
LnStmt == <<"a", ";", "\n">>
LnStructEnd == <<"}", ";", "\n">>
LnBrace == <<"}", "\n">>
LnCommentEnd == <<" ", "*", "/", "\n">>
LnEndif == WEndif \o <<"\n">>
LnComma == <<"a", ",", "\n">>
LnCommentMid == <<" ", "*", " ", "a", ";", "\n">>
LnOpenParen == <<"f", "(", "\n">>
LnOpenBrace == <<"s", " ", "{", "\n">>
LnBackslash == <<"a", "\\", "\n">>
LnPointer == <<"a", " ", "*", "\n">>
LnArrowOut == <<"-", "-", ">", " ", "a", ";", "\n">>
LnArrowIn == <<"<", "-", "-", " ", "a", ";", "\n">>
LnParameters == WParameters \o <<"\n">>
LnDiscussion == WDiscussion \o <<"\n">>
LnResult == WResult \o <<"\n">>
LnPlain == <<"a", "b", "\n">>
LnAccent == <<"e-acute", ";", "\n">>

\* lines offered to is_safe_split_location
CtxPool ==
    {LnBlank, LnSpaces, LnStmt, LnStructEnd, LnBrace, LnCommentEnd, LnEndif,
     LnComma, LnCommentMid, LnOpenParen, LnOpenBrace, LnBackslash, LnPointer,
     LnArrowOut, LnArrowIn, LnParameters, LnDiscussion, LnResult, LnPlain,
     LnAccent}

\* lines offered to find_safe_split_points
SplitPool ==
    {LnBlank, LnSpaces, LnStmt, LnEndif, LnComma, LnCommentMid, LnPlain,
     LnResult, LnAccent}

\* longest file given to is_safe_split_location
MaxCtxLines == 3

\* longest file given to find_safe_split_points
MaxLines == 4

\* values of threshold_bytes and min_part_bytes tried
Thresholds == {5, 10}
MinParts == {2, 6}

Files(pool, n) == UNION {[1..k -> pool] : k \in 0..n}

-----------------------------------------------------------------------------
(* SpecSafe: one call of is_safe_split_location                             *)

\* the label generator is not part of this specification
LabelsIdle ==
    /\ header_file = <<>>
    /\ json_file = <<>>
    /\ txt_file = <<>>
    /\ lpc = <<>>
    /\ attempt = <<>>
    /\ result = <<>>
    /\ ask_calls = <<>>
    /\ last_ask = <<>>

\* the sample pipeline is not part of this specification
MainIdle ==
    /\ task = "none"
    /\ described = TRUE
    /\ code_file = <<>>
    /\ input_file = <<>>
    /\ label_file = <<>>
    /\ mpc = "idle"
    /\ outcome = "none"
    /\ last_call = <<>>
    /\ dataset = <<>>

\* the splitter is not part of this specification
SplitIdle ==
    /\ threshold_bytes = 0
    /\ min_part_bytes = 0
    /\ i = 0
    /\ current_size = 0
    /\ split_points = <<>>
    /\ split_kind = <<>>
    /\ pc = "idle"

InitSafe ==
    /\ lines \in Files(CtxPool, MaxCtxLines)
    /\ line_idx \in 0..(Len(lines) + 1)
    /\ ret = "none"
    /\ SplitIdle
    /\ LabelsIdle
    /\ MainIdle
    /\ MoreIdle

CallIsSafe ==
    /\ ret = "none"
    /\ ret' = IF is_safe_split_location(lines, line_idx) THEN "True" ELSE "False"
    /\ UNCHANGED <<lines, line_idx, threshold_bytes, min_part_bytes, i,
                   current_size, split_points, split_kind, pc>>
    /\ UNCHANGED <<labelVars, mainVars, moreVars>>

NextSafe == CallIsSafe

SpecSafe == InitSafe /\ [][NextSafe]_vars

-----------------------------------------------------------------------------
(* SpecSplit: find_safe_split_points, one action per loop iteration         *)

\* 0.7 and 1.3 as tenths: size >= threshold_bytes * 0.7  <=>  10*size >= 7*threshold
MostlyFullTenths == 7
OverfullTenths == 13

\* current_size >= threshold_bytes * (tenths / 10)
ReachesFraction(size, threshold, tenths) == 10 * size >= tenths * threshold

\* line 23 without the size test: every blank line is a candidate
CandidateAnyBlank(size, threshold, line) == Strip(line) = <<>>

\* line 23: the line is a split candidate
IsSplitCandidate(size, threshold, line) ==
    ReachesFraction(size, threshold, MostlyFullTenths) /\ Strip(line) = <<>>

\* line 35: the chunk has grown too large
IsForcedSplit(size, threshold) == ReachesFraction(size, threshold, OverfullTenths)

\* len("".join(lines[k:]).encode('utf-8'))
RECURSIVE BytesFrom(_, _)
BytesFrom(ls, k) ==
    IF k >= Len(ls) THEN 0 ELSE Utf8Len(At(ls, k)) + BytesFrom(ls, k + 1)

\* line 30 without the size test: any remainder is accepted
RemainderIgnored(remaining_size, min_bytes) == TRUE

\* line 30
RemainderAccepted(remaining_size, min_bytes) ==
    remaining_size = 0 \/ remaining_size >= min_bytes

InitSplit ==
    /\ lines \in Files(SplitPool, MaxLines)
    /\ threshold_bytes \in Thresholds
    /\ min_part_bytes \in MinParts
    /\ i = 0
    /\ current_size = 0
    /\ split_points = <<>>
    /\ split_kind = <<>>
    /\ pc = "scan"
    /\ line_idx = 0
    /\ ret = "none"
    /\ LabelsIdle
    /\ MainIdle
    /\ MoreIdle

\* one iteration of  for i, line in enumerate(lines)
LoopBody ==
    /\ pc = "scan"
    /\ i < Len(lines)
    /\ LET line == At(lines, i)
           size == current_size + Utf8Len(line)
       IN  IF IsSplitCandidate(size, threshold_bytes, line)
           THEN IF /\ is_safe_split_location(lines, i)
                   /\ RemainderAccepted(BytesFrom(lines, i + 1), min_part_bytes)
                THEN /\ split_points' = Append(split_points, i + 1)
                     /\ split_kind' = Append(split_kind, "safe")
                     /\ current_size' = 0
                ELSE /\ current_size' = size
                     /\ UNCHANGED <<split_points, split_kind>>
           ELSE IF IsForcedSplit(size, threshold_bytes)
                THEN /\ split_points' = Append(split_points, i + 1)
                     /\ split_kind' = Append(split_kind, "forced")
                     /\ current_size' = 0
                ELSE /\ current_size' = size
                     /\ UNCHANGED <<split_points, split_kind>>
    /\ i' = i + 1
    /\ UNCHANGED <<lines, line_idx, ret, threshold_bytes, min_part_bytes, pc>>
    /\ UNCHANGED <<labelVars, mainVars, moreVars>>

\* return split_points
ReturnSplitPoints ==
    /\ pc = "scan"
    /\ i = Len(lines)
    /\ pc' = "done"
    /\ UNCHANGED <<lines, line_idx, ret, threshold_bytes, min_part_bytes, i,
                   current_size, split_points, split_kind>>
    /\ UNCHANGED <<labelVars, mainVars, moreVars>>

NextSplit == LoopBody \/ ReturnSplitPoints

SpecSplit == InitSplit /\ [][NextSplit]_vars

-----------------------------------------------------------------------------
(* Vocabulary of the statements about the splitter                          *)

Blank(line) == Strip(line) = <<>>

LastChar(s) == s[Len(s)]

\* a stripped line of one of the shapes that must not precede a split
ContinuesDeclaration(s) ==
    /\ s # <<>>
    /\ \/ LastChar(s) \in {",", "\\", "*", "(", "{"}
       \/ Head(s) = "*"
       \/ StartsWith(s, <<"-", "-", ">">>)
       \/ StartsWith(s, <<"<", "-", "-">>)
       \/ EndsWith(s, WParameters)
       \/ EndsWith(s, WDiscussion)
       \/ EndsWith(s, WResult)

\* line k (0-based) exists and has such a shape
UnsafeLineAt(ls, k) ==
    k >= 0 /\ k < Len(ls) /\ ContinuesDeclaration(Strip(At(ls, k)))

\* bytes of lines[a:b]
RECURSIVE ChunkBytes(_, _, _)
ChunkBytes(ls, a, b) ==
    IF a >= b THEN 0 ELSE Utf8Len(At(ls, a)) + ChunkBytes(ls, a + 1, b)

\* first line of the chunk that split point number k closes
ChunkStart(k) == IF k = 1 THEN 0 ELSE split_points[k - 1]

\* first line of the final chunk
LastStart == IF split_points = <<>> THEN 0 ELSE split_points[Len(split_points)]

Below13(size) == 10 * size < OverfullTenths * threshold_bytes
AtLeast07(size) == 10 * size >= MostlyFullTenths * threshold_bytes

\* the call has returned and the candidate is a blank line with a line before it
AnsweredAtBlank ==
    /\ ret # "none"
    /\ line_idx > 0
    /\ line_idx < Len(lines)
    /\ Blank(At(lines, line_idx))

PrevStripped == Strip(At(lines, line_idx - 1))

-----------------------------------------------------------------------------
(* C1..C8: the header splitter                                              *)

\* C1: when find_safe_split_points returns, every chunk between consecutive
\* split points, the final chunk included, holds less than 1.3 x threshold_bytes
\* before its last line (the hard split is taken as soon as 1.3 x is reached).
C1_HardSplitBound ==
    pc = "done" =>
        /\ \A k \in 1..Len(split_points) :
               Below13(ChunkBytes(lines, ChunkStart(k), split_points[k] - 1))
        /\ Len(lines) > LastStart =>
               Below13(ChunkBytes(lines, LastStart, Len(lines) - 1))

\* C2 as stated: after every split point, forced or not, the rest of the file is
\* empty or at least min_part_bytes long.
C2_EveryRemainder ==
    \A k \in 1..Len(split_points) :
        LET rest == BytesFrom(lines, split_points[k])
        IN  rest = 0 \/ rest >= min_part_bytes

\* C2 amended: after every split point that directly follows a whitespace-only
\* line (a split taken at a safe location), the rest of the file is empty or at
\* least min_part_bytes long.
C2_SafeRemainder ==
    \A k \in 1..Len(split_points) :
        Blank(At(lines, split_points[k] - 1)) =>
            LET rest == BytesFrom(lines, split_points[k])
            IN  rest = 0 \/ rest >= min_part_bytes

C2_Witness ==
    /\ pc = "done"
    /\ \E k \in 1..Len(split_points) :
           /\ split_kind[k] = "safe"
           /\ BytesFrom(lines, split_points[k]) > 0

\* C3: a blank line right after a comment-block end `*/`, with no unsafe line
\* two lines before, is a safe split location.
C3_CommentEndSafe ==
    (/\ AnsweredAtBlank
     /\ PrevStripped = <<"*", "/">>
     /\ ~UnsafeLineAt(lines, line_idx - 2)) => ret = "True"

\* C4 as stated: a blank line right after `}` or `};`, with no unsafe line two
\* lines before, is a safe split location.
C4_AnyClosingBrace ==
    (/\ AnsweredAtBlank
     /\ PrevStripped \in {<<"}">>, <<"}", ";">>}
     /\ ~UnsafeLineAt(lines, line_idx - 2)) => ret = "True"

\* C4 amended: a blank line right after a closing brace followed by a semicolon,
\* `};`, with no unsafe line two lines before, is a safe split location.
C4_BraceSemicolonSafe ==
    (/\ AnsweredAtBlank
     /\ PrevStripped = <<"}", ";">>
     /\ ~UnsafeLineAt(lines, line_idx - 2)) => ret = "True"

C4_Witness ==
    /\ AnsweredAtBlank
    /\ line_idx >= 2
    /\ PrevStripped = <<"}", ";">>
    /\ ret = "True"

\* C5: a blank line right after a line that ends with a semicolon or begins with
\* #endif, neither of the two preceding lines being unsafe, is a safe split
\* location; the answer is False when the line is not blank, the index is 0 or
\* past the end, or the preceding line matches no safe-end pattern.
C5_SemicolonEndif ==
    ret # "none" =>
        /\ (/\ AnsweredAtBlank
            /\ \/ EndsWith(PrevStripped, <<";">>)
               \/ StartsWith(PrevStripped, WEndif)
            /\ ~UnsafeLineAt(lines, line_idx - 1)
            /\ ~UnsafeLineAt(lines, line_idx - 2)) => ret = "True"
        /\ (\/ line_idx = 0
            \/ line_idx >= Len(lines)
            \/ ~Blank(At(lines, line_idx))
            \/ ~MatchesSafeEnd(PrevStripped)) => ret = "False"

C5_Witness ==
    /\ AnsweredAtBlank
    /\ line_idx >= 2
    /\ StartsWith(PrevStripped, WEndif)
    /\ ret = "True"

\* C6: a blank line is rejected when one of the up to three lines after it is
\* unsafe, whatever the line before it.
C6_LooksAhead ==
    (/\ ret # "none"
     /\ \E k \in (line_idx + 1)..(line_idx + 3) : UnsafeLineAt(lines, k))
        => ret = "False"

C8_CandidatesPast70 ==
    \A k \in 1..Len(split_points) :
        LET size == ChunkBytes(lines, ChunkStart(k), split_points[k])
        IN  /\ AtLeast07(size)
            /\ Below13(size) => Blank(At(lines, split_points[k] - 1))

C8_Witness ==
    /\ pc = "done"
    /\ Len(split_points) >= 2
    /\ \E k \in 1..Len(split_points) :
           Below13(ChunkBytes(lines, ChunkStart(k), split_points[k]))

-----------------------------------------------------------------------------
(* Files and texts of the label generators                                  *)

\* a path of the file system: missing, or a file with its content
Absent == [exists |-> FALSE, data |-> <<>>]
FileOf(text) == [exists |-> TRUE, data |-> text]

Fence == <<"backtick", "backtick", "backtick", "j", "s", "o", "n">>
FenceEnd == <<"backtick", "backtick", "backtick">>
TxtMarker == <<"{", "\"", "e", "r", "r", "o", "r", "\"", ":", " ", "\"", "g", "e", "n", "e", "r", "a", "t", "i", "o", "n", "_", "f", "a", "i", "l", "e", "d", "\"", "}">>
TxtLabel == <<"{", "\"", "e", "x", "c", "l", "u", "d", "e", "\"", ":", " ", "[", "\"", "a", "\"", "]", "}">>
TxtTen == <<"{", "\"", "a", "\"", ":", " ", "1", "2", "3", "}">>
TxtEleven == <<"{", "\"", "a", "\"", ":", " ", "1", "2", "3", "4", "}">>
TxtGarbage == <<"n", "o", "t", " ", "j", "s", "o", "n", " ", "t", "e", "x", "t">>
TxtIdents == <<"[", "\"", "A", "\"", "]">>
TxtProse == <<"H", "i">>
TxtHeader == <<"i", "n", "t", " ", "a", ";", "\n">>
TxtSpaces == <<" ", "\n">>
TxtAst == <<"{", "\"", "s", "\"", ":", " ", "1", "}">>
TxtInstruction == <<"{", "\"", "i", "n", "s", "t", "r", "u", "c", "t", "i", "o", "n", "\"", ":", " ", "\"", "i", "\"", "}">>
TxtEntry == <<"{", "\"", "i", "n", "s", "t", "r", "u", "c", "t", "i", "o", "n", "\"", ":", " ", "\"", "i", "\"", ",", " ", "\"", "i", "n", "p", "u", "t", "\"", ":", " ", "\"", "h", "\"", "}">>

\* the texts of the model that json.loads accepts (it raises JSONDecodeError on
\* the others); json.loads ignores whitespace around the value
JsonTexts ==
    {TxtMarker, TxtLabel, TxtTen, TxtEleven, TxtIdents, TxtInstruction, TxtEntry, TxtAst}

\* a parser that accepts every text
JsonLoadsAlways(text) == TRUE

JsonLoadsOk(text) == Strip(text) \in JsonTexts

\* str.removeprefix, str.removesuffix
RemovePrefix(s, p) == IF StartsWith(s, p) THEN SubSeq(s, Len(p) + 1, Len(s)) ELSE s
RemoveSuffix(s, p) == IF EndsWith(s, p) THEN SubSeq(s, 1, Len(s) - Len(p)) ELSE s

-----------------------------------------------------------------------------
(* SpecLabels: generate_labels.process_single_file, called once per header  *)
(* by each run of create_labels_fast                                        *)

Headers == {"A.h", "B.h"}

MAX_RETRIES == 3

\* response_text.strip().removeprefix(FENCE + "json").removesuffix(FENCE).strip(),
\* FENCE being three backticks; the character is written "backtick" here
CleanResponse(response_text) ==
    Strip(RemoveSuffix(RemovePrefix(Strip(response_text), Fence), FenceEnd))

\* what GeminiHandler.ask may return
RespArray == TxtIdents
RespFenced == Fence \o <<"\n">> \o TxtIdents \o <<"\n">> \o FenceEnd
RespProse == TxtProse
RespFencedProse == Fence \o <<"\n">> \o TxtProse \o <<"\n">> \o FenceEnd \o <<"\n">>
Responses == {RespArray, RespFenced, RespProse, RespFencedProse}

\* ... or raise: GeminiBlockedError, GeminiResponseEmptyError, any other exception
AskErrors == {"blocked", "empty", "exception"}

\* GeminiHandler.save_content(content, path), when it does not raise
SaveContent(content) == FileOf(content)

NoResult == [ok |-> FALSE, msg |-> "none"]

\* the latest attempt: ask raised, or it returned response and save_content
\* did or did not write the file
NoAsk == [kind |-> "none", response |-> <<>>, saved |-> FALSE]
Raised == [kind |-> "raised", response |-> <<>>, saved |-> FALSE]
Answered(response_text, saved) ==
    [kind |-> "answered", response |-> response_text, saved |-> saved]
Returned(ok, msg) == [ok |-> ok, msg |-> msg]

\* line 87 with the validity test of main.is_valid_json_file in place of exists()
OutputIsValidJson(f) == f.exists /\ JsonLoadsOk(f.data)

\* line 87: output_path.exists()
OutputExists(f) == f.exists

SplitterIdle ==
    /\ lines = <<>>
    /\ line_idx = 0
    /\ ret = "none"
    /\ SplitIdle

InitLabels ==
    /\ header_file \in [Headers -> {FileOf(TxtHeader), FileOf(TxtSpaces)}]
    /\ json_file \in [Headers -> {Absent, FileOf(TxtIdents), FileOf(TxtGarbage), FileOf(<<>>)}]
    /\ txt_file = [h \in Headers |-> Absent]
    /\ lpc = [h \in Headers |-> "idle"]
    /\ attempt = [h \in Headers |-> 0]
    /\ result = [h \in Headers |-> NoResult]
    /\ ask_calls = [h \in Headers |-> 0]
    /\ last_ask = [h \in Headers |-> NoAsk]
    /\ SplitterIdle
    /\ MainIdle
    /\ MoreIdle

\* process_single_file up to the retry loop (lines 85-111)
StartFile(h) ==
    /\ lpc[h] = "idle"
    /\ ask_calls' = [ask_calls EXCEPT ![h] = 0]
    /\ last_ask' = [last_ask EXCEPT ![h] = NoAsk]
    /\ attempt' = [attempt EXCEPT ![h] = 0]
    /\ IF OutputExists(json_file[h])
       THEN /\ result' = [result EXCEPT ![h] = Returned(TRUE, "skipped")]
            /\ lpc' = [lpc EXCEPT ![h] = "returned"]
       ELSE \E readable \in BOOLEAN :
            IF ~readable                      \* OSError from read_text: line 145
            THEN /\ result' = [result EXCEPT ![h] = Returned(FALSE, "file_error")]
                 /\ lpc' = [lpc EXCEPT ![h] = "returned"]
            ELSE IF Strip(header_file[h].data) = <<>>
            THEN /\ result' = [result EXCEPT ![h] = Returned(FALSE, "empty")]
                 /\ lpc' = [lpc EXCEPT ![h] = "returned"]
            ELSE /\ result' = [result EXCEPT ![h] = NoResult]
                 /\ lpc' = [lpc EXCEPT ![h] = "attempt"]
    /\ UNCHANGED <<header_file, json_file, txt_file>>
    /\ UNCHANGED <<splitVars, mainVars, moreVars>>

\* the retry test one attempt too generous
RetryOnceMore(h, msg) ==
    IF attempt[h] < MAX_RETRIES
    THEN /\ attempt' = [attempt EXCEPT ![h] = attempt[h] + 1]
         /\ UNCHANGED <<lpc, result>>
    ELSE /\ result' = [result EXCEPT ![h] = Returned(FALSE, msg)]
         /\ lpc' = [lpc EXCEPT ![h] = "returned"]
         /\ UNCHANGED attempt

\* lines 131-141: sleep and try again, or give up after the last attempt
RetryOrFail(h, msg) ==
    IF attempt[h] < MAX_RETRIES - 1
    THEN /\ attempt' = [attempt EXCEPT ![h] = attempt[h] + 1]
         /\ UNCHANGED <<lpc, result>>
    ELSE /\ result' = [result EXCEPT ![h] = Returned(FALSE, msg)]
         /\ lpc' = [lpc EXCEPT ![h] = "returned"]
         /\ UNCHANGED attempt

\* one iteration of the retry loop in which ask returns a text (lines 114-129)
AskReturns(h) ==
    /\ lpc[h] = "attempt"
    /\ ask_calls' = [ask_calls EXCEPT ![h] = ask_calls[h] + 1]
    /\ \E response_text \in Responses, saved \in BOOLEAN :
         LET clean_response == CleanResponse(response_text)
         IN  /\ last_ask' = [last_ask EXCEPT ![h] = Answered(response_text, saved)]
             /\ IF JsonLoadsOk(clean_response)
                THEN IF saved
                     THEN /\ json_file' = [json_file EXCEPT ![h] = SaveContent(clean_response)]
                          /\ result' = [result EXCEPT ![h] = Returned(TRUE, "done")]
                          /\ lpc' = [lpc EXCEPT ![h] = "returned"]
                          /\ UNCHANGED <<txt_file, attempt>>
                     ELSE /\ RetryOrFail(h, "exception")     \* save_content raised
                          /\ UNCHANGED <<json_file, txt_file>>
                ELSE IF saved
                     THEN /\ txt_file' = [txt_file EXCEPT ![h] = SaveContent(response_text)]
                          /\ result' = [result EXCEPT ![h] = Returned(FALSE, "json_error")]
                          /\ lpc' = [lpc EXCEPT ![h] = "returned"]
                          /\ UNCHANGED <<json_file, attempt>>
                     ELSE \* save_content raised inside the handler: outer except, line 145
                          /\ result' = [result EXCEPT ![h] = Returned(FALSE, "file_error")]
                          /\ lpc' = [lpc EXCEPT ![h] = "returned"]
                          /\ UNCHANGED <<json_file, txt_file, attempt>>
    /\ UNCHANGED header_file
    /\ UNCHANGED <<splitVars, mainVars, moreVars>>

\* one iteration of the retry loop in which ask raises (lines 131-141)
AskRaises(h) ==
    /\ lpc[h] = "attempt"
    /\ ask_calls' = [ask_calls EXCEPT ![h] = ask_calls[h] + 1]
    /\ \E err \in AskErrors :
         RetryOrFail(h, IF err = "exception" THEN "exception" ELSE "api_error")
    /\ last_ask' = [last_ask EXCEPT ![h] = Raised]
    /\ UNCHANGED <<header_file, json_file, txt_file>>
    /\ UNCHANGED <<splitVars, mainVars, moreVars>>

\* create_labels_fast is run again and submits the header again (lines 186-190)
RunAgain(h) ==
    /\ lpc[h] = "returned"
    /\ lpc' = [lpc EXCEPT ![h] = "idle"]
    /\ UNCHANGED <<header_file, json_file, txt_file, attempt, result, ask_calls,
                   last_ask>>
    /\ UNCHANGED <<splitVars, mainVars, moreVars>>

NextLabels ==
    \E h \in Headers : StartFile(h) \/ AskReturns(h) \/ AskRaises(h) \/ RunAgain(h)

SpecLabels == InitLabels /\ [][NextLabels]_vars

-----------------------------------------------------------------------------
(* C9: re-running generate_labels                                           *)

\* C9: a call of process_single_file that finds the output label path existing
\* returns success in that very step, calls GeminiHandler.ask not once and leaves
\* every file as it was, whatever the existing file holds.
C9_RerunSkip ==
    [][\A h \in Headers :
          (lpc[h] = "idle" /\ lpc'[h] # "idle" /\ json_file[h].exists) =>
              /\ lpc'[h] = "returned"
              /\ result'[h].ok
              /\ ask_calls'[h] = 0
              /\ json_file' = json_file
              /\ txt_file' = txt_file
              /\ header_file' = header_file]_vars

C9_Witness ==
    \E h \in Headers :
        /\ lpc[h] = "returned"
        /\ result[h] = Returned(TRUE, "skipped")
        /\ json_file[h] = FileOf(TxtGarbage)
        /\ ask_calls[h] = 0

-----------------------------------------------------------------------------
(* SpecMain: main.process_and_save_sample and test.process_test_sample,     *)
(* for one task; each call is one step, and a later run of the pipeline     *)
(* calls again                                                              *)

TxtSwiftShort == <<"l", "e", "t", " ", "a", " ", "=", " ", "1", "\n">>
TxtSwift == <<"l", "e", "t", " ", "a", "b", " ", "=", " ", "1", "2", "\n">>
TxtBlank11 == <<" ", " ", " ", " ", " ", " ", " ", " ", " ", " ", "\n">>
TxtPrompt == <<"p", "r", "o", "m", "p", "t">>

\* bytes that are not valid UTF-8: read_text(encoding='utf-8') raises UnicodeDecodeError
InvalidUtf8 == {"byte-ff"}
TxtUndecodable == <<"{", "\"", "a", "\"", ":", " ", "\"", "byte-ff", "\"", " ", " ", "}">>

Decodable(data) == \A k \in 1..Len(data) : data[k] \notin InvalidUtf8

\* the tasks of the model: one from create_generation_tasks for a generator of
\* GENERATORS_TO_RUN, one from process_old_code_files, one from discover_test_files
GenTask == "gemini/R_P_sufficient_0"
OldTask == "old_claude/Sample"
TestTask == "test/Code_iOS/View"
PipelineTasks == {GenTask, OldTask}
Tasks == {GenTask, OldTask, TestTask}

\* generator_type.startswith("old_")
IsOld(t) == t = OldTask

\* label files a run may find
LabelPool ==
    {Absent, FileOf(TxtMarker), FileOf(TxtLabel), FileOf(TxtTen), FileOf(TxtEleven),
     FileOf(TxtIdents), FileOf(TxtGarbage), FileOf(TxtBlank11), FileOf(TxtUndecodable)}

\* code files a run may find: old and test tasks are made from existing files
CodePool(t) ==
    IF t = GenTask THEN {Absent, FileOf(TxtSwift)}
    ELSE IF t = OldTask THEN {FileOf(TxtSwiftShort), FileOf(TxtSwift)}
    ELSE {FileOf(TxtSwift), FileOf(TxtBlank11)}

\* what safe_gemini_label_request returns besides None: a JSON object text
LabelReplies == {TxtLabel, TxtTen}

\* "최소 크기 체크": files up to this many bytes are not looked into
MinFileBytes == 10

\* is_valid_json_file with  st_size < 10  for  st_size <= 10
ValidFromTenBytes(f) ==
    /\ f.exists
    /\ ~(Utf8Len(f.data) < MinFileBytes)
    /\ Decodable(f.data)
    /\ Strip(f.data) # <<>>
    /\ JsonLoadsOk(Strip(f.data))

\* is_valid_json_file(file_path), main.py and test.py alike
is_valid_json_file(f) ==
    /\ f.exists
    /\ ~(Utf8Len(f.data) <= MinFileBytes)
    /\ Decodable(f.data)                    \* else UnicodeDecodeError: False
    /\ Strip(f.data) # <<>>
    /\ JsonLoadsOk(Strip(f.data))           \* else JSONDecodeError: False

\* code_path.exists() and code_path.stat().st_size > 10, then read_text
\* ("" when reading raises)
ExistingCode(f, readable) ==
    IF f.exists /\ Utf8Len(f.data) > MinFileBytes /\ readable /\ Decodable(f.data)
    THEN f.data ELSE <<>>

\* the text the assembly looks for in a saved input prompt
SymbolInfoKey ==
    <<"s", "y", "m", "b", "o", "l", "_", "i", "n", "f", "o", "_", "j", "s", "o", "n", "=">>

\* input prompts a run may find: the one process_and_save_sample writes, and
\* prompts that hold the key followed by a JSON text or by another text
TxtPromptInfo == SymbolInfoKey \o TxtAst \o <<"\n", "\n", "e", "n", "d">>
TxtPromptBad == SymbolInfoKey \o <<" ", "x">>
PromptPool == {Absent, FileOf(TxtPrompt), FileOf(TxtPromptInfo), FileOf(TxtPromptBad)}

\* str.find(sub) + 1: the position of the first occurrence, 0 when there is none
Find(s, sub) ==
    LET hits == {k \in 1..(Len(s) - Len(sub) + 1) : SubSeq(s, k, k + Len(sub) - 1) = sub}
    IN  IF hits = {} THEN 0 ELSE CHOOSE k \in hits : \A m \in hits : k <= m

\* re.search(r'symbol_info_json=(.+?)(?=\n\n|\Z)', input_prompt, re.DOTALL),
\* group(1).strip(); <<>> when the key is absent or nothing matches
ExtractSymbolInfo(input_prompt) ==
    LET at == Find(input_prompt, SymbolInfoKey)
        first == at + Len(SymbolInfoKey)
        ends == {e \in first..Len(input_prompt) :
                    \/ e = Len(input_prompt)
                    \/ /\ e + 2 <= Len(input_prompt)
                       /\ input_prompt[e + 1] = "\n"
                       /\ input_prompt[e + 2] = "\n"}
    IN  IF at = 0 \/ ends = {} THEN <<>>
        ELSE Strip(SubSeq(input_prompt, first, CHOOSE e \in ends : \A m \in ends : e <= m))

\* json.loads(text) for the texts of JsonTexts: the kind of the value and its
\* items, each a <<key or index, value>> pair
JsonLoads(text) ==
    LET t == Strip(text)
    IN  CASE t = TxtMarker -> [type |-> "dict", items |-> {<<"error", "generation_failed">>}]
          [] t = TxtLabel -> [type |-> "dict", items |-> {<<"exclude", "[a]">>}]
          [] t = TxtTen -> [type |-> "dict", items |-> {<<"a", "123">>}]
          [] t = TxtEleven -> [type |-> "dict", items |-> {<<"a", "1234">>}]
          [] t = TxtIdents -> [type |-> "list", items |-> {<<"0", "A">>}]
          [] t = TxtInstruction -> [type |-> "dict", items |-> {<<"instruction", "i">>}]
          [] t = TxtEntry ->
                 [type |-> "dict", items |-> {<<"instruction", "i">>, <<"input", "h">>}]
          [] t = TxtAst -> [type |-> "dict", items |-> {<<"s", "1">>}]

NoCalls == [codegen |-> FALSE, analyzer |-> FALSE, label |-> FALSE]

InitMain ==
    /\ task \in Tasks
    /\ described \in BOOLEAN
    /\ code_file \in CodePool(task)
    /\ label_file \in LabelPool
    /\ input_file \in PromptPool
    /\ mpc = "idle"
    /\ outcome = "none"
    /\ last_call = NoCalls
    /\ dataset = <<>>
    /\ SplitterIdle
    /\ LabelsIdle
    /\ MoreIdle

\* the call ends: which return it took and which services it called
Leave(how, calls) ==
    /\ mpc' = "returned"
    /\ outcome' = how
    /\ last_call' = calls

\* lines 437-470 of main.py, lines 251-285 of test.py: analyzer, input prompt,
\* label request, label file. swift_code is not blank here.
AnalyzeAndLabel(codegen) ==
    \E symbol_info \in {<<>>, TxtAst}, input_saved \in BOOLEAN,
       reply \in {<<>>} \cup LabelReplies, label_saved \in BOOLEAN :
        IF symbol_info = <<>>
        THEN /\ Leave("analyzer_failed",
                      [codegen |-> codegen, analyzer |-> TRUE, label |-> FALSE])
             /\ UNCHANGED <<input_file, label_file>>
        ELSE IF ~input_saved
        THEN /\ Leave("save_input_failed",
                      [codegen |-> codegen, analyzer |-> TRUE, label |-> FALSE])
             /\ UNCHANGED <<input_file, label_file>>
        ELSE /\ input_file' = FileOf(TxtPrompt)
             /\ IF reply = <<>>
                THEN /\ Leave("label_failed",
                              [codegen |-> codegen, analyzer |-> TRUE, label |-> TRUE])
                     /\ label_file' = IF label_saved THEN FileOf(TxtMarker)
                                      ELSE label_file
                ELSE IF label_saved
                THEN /\ Leave("saved",
                              [codegen |-> codegen, analyzer |-> TRUE, label |-> TRUE])
                     /\ label_file' = FileOf(reply)
                ELSE /\ Leave("save_label_failed",
                              [codegen |-> codegen, analyzer |-> TRUE, label |-> TRUE])
                     /\ UNCHANGED label_file

\* main.process_and_save_sample((task, generator_type, safe_patterns))
ProcessAndSaveSample ==
    /\ task \in PipelineTasks
    /\ mpc = "idle"
    /\ UNCHANGED <<task, described, dataset, splitVars, labelVars, moreVars>>
    /\ IF is_valid_json_file(label_file)
       THEN /\ Leave("skipped", NoCalls)
            /\ UNCHANGED <<code_file, input_file, label_file>>
       ELSE \E readable \in BOOLEAN :
            LET found == ExistingCode(code_file, readable)
            IN  IF Strip(found) # <<>>
                THEN /\ AnalyzeAndLabel(FALSE)
                     /\ UNCHANGED code_file
                ELSE IF IsOld(task)
                THEN /\ Leave("no_code", NoCalls)
                     /\ UNCHANGED <<code_file, input_file, label_file>>
                ELSE IF ~described           \* KeyError while formatting the prompt
                THEN /\ Leave("raised", NoCalls)
                     /\ UNCHANGED <<code_file, input_file, label_file>>
                ELSE \E generated \in {<<>>, TxtSwift}, code_saved \in BOOLEAN :
                     IF generated = <<>>
                     THEN /\ Leave("codegen_failed",
                                   [codegen |-> TRUE, analyzer |-> FALSE, label |-> FALSE])
                          /\ UNCHANGED <<code_file, input_file, label_file>>
                     ELSE IF ~code_saved
                     THEN /\ Leave("save_code_failed",
                                   [codegen |-> TRUE, analyzer |-> FALSE, label |-> FALSE])
                          /\ UNCHANGED <<code_file, input_file, label_file>>
                     ELSE /\ code_file' = FileOf(generated)
                          /\ AnalyzeAndLabel(TRUE)

\* test.process_test_sample(test_task)
ProcessTestSample ==
    /\ task = TestTask
    /\ mpc = "idle"
    /\ UNCHANGED <<task, described, dataset, splitVars, labelVars, moreVars, code_file>>
    /\ IF is_valid_json_file(label_file)
       THEN /\ Leave("skipped", NoCalls)
            /\ UNCHANGED <<input_file, label_file>>
       ELSE \E readable \in BOOLEAN :
            IF ~(code_file.exists /\ readable /\ Decodable(code_file.data))
               \/ Strip(code_file.data) = <<>>
            THEN /\ Leave("no_code", NoCalls)
                 /\ UNCHANGED <<input_file, label_file>>
            ELSE AnalyzeAndLabel(FALSE)

\* the "instruction" of every entry
ExcludeInstruction == "Identify which identifiers in the Swift code should be excluded from obfuscation based on the provided AST analysis, and provide detailed reasoning."

\* the body of the loop over the label files, main.py lines 488-548 and test.py
\* lines 311-370, for the label file of the task: the entries it appends
Assembled(readable, analyzed) ==
    LET extracted == ExtractSymbolInfo(input_file.data)
        symbol_info_json == IF extracted # <<>> THEN extracted ELSE analyzed
    IN  IF ~is_valid_json_file(label_file) THEN <<>>
        ELSE IF ~code_file.exists \/ ~input_file.exists THEN <<>>
        ELSE IF ~(readable /\ Decodable(code_file.data)) THEN <<>>   \* except Exception
        ELSE IF Strip(code_file.data) = <<>> THEN <<>>
        ELSE IF symbol_info_json = <<>> THEN <<>>
        ELSE IF ~JsonLoadsOk(symbol_info_json) \/ ~JsonLoadsOk(label_file.data) THEN <<>>
        ELSE << [instruction |-> ExcludeInstruction,
                 input |-> [swift_code |-> code_file.data,
                            symbol_info |-> JsonLoads(symbol_info_json)],
                 output |-> JsonLoads(label_file.data)] >>

\* main_pipeline after the thread pool: assemble_final_dataset(). The files are
\* written whatever the lists hold; open() raising leaves them as they were.
AssembleFinalDataset ==
    /\ task \in PipelineTasks
    /\ mpc = "returned"
    /\ outcome # "raised"
    /\ mpc' = "assembled"
    /\ \E readable \in BOOLEAN, analyzed \in {<<>>, TxtAst}, saved \in BOOLEAN :
           dataset' = IF saved THEN Assembled(readable, analyzed) ELSE dataset
    /\ UNCHANGED <<task, described, code_file, input_file, label_file, outcome, last_call>>
    /\ UNCHANGED <<splitVars, labelVars, moreVars>>

\* main_test_pipeline after the thread pool: assemble_test_datasets(). A file is
\* written only when its list is not empty.
AssembleTestDatasets ==
    /\ task = TestTask
    /\ mpc = "returned"
    /\ mpc' = "assembled"
    /\ \E readable \in BOOLEAN, analyzed \in {<<>>, TxtAst}, saved \in BOOLEAN :
           LET all_test_data == Assembled(readable, analyzed)
           IN  dataset' = IF all_test_data # <<>> /\ saved THEN all_test_data ELSE dataset
    /\ UNCHANGED <<task, described, code_file, input_file, label_file, outcome, last_call>>
    /\ UNCHANGED <<splitVars, labelVars, moreVars>>

\* list(executor.map(process_and_save_sample, full_task_list)) raises what the
\* call raised: main_pipeline ends there, before assemble_final_dataset()
PipelineAborts ==
    /\ task \in PipelineTasks
    /\ mpc = "returned"
    /\ outcome = "raised"
    /\ mpc' = "aborted"
    /\ UNCHANGED <<task, described, code_file, input_file, label_file, outcome, last_call,
                   dataset>>
    /\ UNCHANGED <<splitVars, labelVars, moreVars>>

\* main_pipeline (or the test pipeline) is run again and maps the task again
NextRun ==
    /\ mpc \in {"assembled", "aborted"}
    /\ mpc' = "idle"
    /\ UNCHANGED <<task, described, code_file, input_file, label_file, outcome, last_call,
                   dataset>>
    /\ UNCHANGED <<splitVars, labelVars, moreVars>>

NextMain ==
    \/ ProcessAndSaveSample
    \/ ProcessTestSample
    \/ AssembleFinalDataset
    \/ AssembleTestDatasets
    \/ PipelineAborts
    \/ NextRun

SpecMain == InitMain /\ [][NextMain]_vars

-----------------------------------------------------------------------------
(* C10: re-running the sample pipeline                                      *)

\* the label file exists, is larger than 10 bytes and parses as JSON
LabelUsable ==
    /\ label_file.exists
    /\ Utf8Len(label_file.data) > 10
    /\ Decodable(label_file.data)
    /\ JsonLoadsOk(label_file.data)

\* C10: a call of process_and_save_sample (or process_test_sample) that finds the
\* task's label file existing, larger than 10 bytes and parsing as JSON returns
\* at once: no code generation, no analyzer run, no label request, no file
\* written; with a label file that is missing, at most 10 bytes long or not
\* valid JSON the call never leaves by the skip.
C10_MainSkip ==
    [][(mpc = "idle" /\ mpc' = "returned") =>
          /\ LabelUsable =>
                 /\ outcome' = "skipped"
                 /\ last_call' = NoCalls
                 /\ code_file' = code_file
                 /\ input_file' = input_file
                 /\ label_file' = label_file
          /\ ~LabelUsable => outcome' # "skipped"]_vars

C10_Witness ==
    /\ task = GenTask
    /\ mpc = "returned"
    /\ outcome = "skipped"
    /\ last_call = NoCalls
    /\ label_file = FileOf(TxtEleven)

-----------------------------------------------------------------------------
(* SpecCopy: prepare_headers.find_and_copy_headers over one source folder,  *)
(* run twice over the same source files                                     *)

\* A file name is written as the sequence of its "_"-separated pieces, the
\* ".h" left out: <<"Pods", "X", "1">> is Pods_X_1.h

\* src_dir.name of the source folder ./Pods
SourceName == "Pods"

\* headers below ./Pods; parent is header_file.parent.name, "" for a file that
\* lies directly in src_dir, name is header_file.name
PodsX == [path |-> "Pods/X.h", parent |-> "", name |-> <<"X">>]
PodsPodsX == [path |-> "Pods/Pods/X.h", parent |-> "Pods", name |-> <<"X">>]
PodsAPodsX == [path |-> "Pods/A/Pods/X.h", parent |-> "Pods", name |-> <<"X">>]
PodsX1 == [path |-> "Pods/X_1.h", parent |-> "", name |-> <<"X", "1">>]
PodsAX == [path |-> "Pods/A/X.h", parent |-> "A", name |-> <<"X">>]
SourcePaths == {PodsX, PodsPodsX, PodsAPodsX, PodsX1, PodsAX}

\* content of a source header and whether the process may read it
SourceStates ==
    {[data |-> TxtHeader, readable |-> TRUE],
     [data |-> TxtProse, readable |-> TRUE],
     [data |-> TxtSpaces, readable |-> TRUE],
     [data |-> TxtHeader, readable |-> FALSE]}

SourceFiles ==
    {[path |-> p.path, parent |-> p.parent, name |-> p.name,
      data |-> s.data, readable |-> s.readable] : p \in SourcePaths, s \in SourceStates}

MaxSources == 3

\* the listings rglob can return: every path at most once
Listings ==
    {l \in UNION {[1..k -> SourceFiles] : k \in 0..MaxSources} :
        \A a, b \in 1..Len(l) : a # b => l[a].path # l[b].path}

\* the destination folder before the first run
InitialDests ==
    {<<>>,
     [n \in {<<"Pods", "X">>} |-> TxtProse],
     [n \in {<<"Pods", "X">>, <<"Pods", "X", "1">>} |->
         IF n = <<"Pods", "X">> THEN TxtSpaces ELSE TxtProse]}

\* dest_path = None
None == <<>>

\* lines 54-60
unique_name(h) ==
    IF h.parent # "" /\ h.parent # SourceName
    THEN <<SourceName, h.parent>> \o h.name
    ELSE <<SourceName>> \o h.name

\* line 76: f"{base_name}_{counter}{extension}"
new_name(base_name, counter) == Append(base_name, ToString(counter))

\* a comparison that never finds two files equal
NeverEqual(dir, path, data) == FALSE

\* filecmp.cmp(header_file, path, shallow=False)
filecmp(dir, path, data) == dir[path] = data

\* lines 72-86: the while loop, from counter on
RECURSIVE NewDestPath(_, _, _, _)
NewDestPath(dir, base_name, data, counter) ==
    LET new_dest_path == new_name(base_name, counter)
    IN  IF new_dest_path \notin DOMAIN dir
        THEN new_dest_path
        ELSE IF filecmp(dir, new_dest_path, data)
             THEN None
             ELSE NewDestPath(dir, base_name, data, counter + 1)

\* lines 62-89 with the copy going to the computed name whatever lies there
DestPathOverwriting(dir, h) ==
    LET dest_path == unique_name(h)
    IN  IF dest_path \in DOMAIN dir /\ filecmp(dir, dest_path, h.data)
        THEN None
        ELSE dest_path

\* lines 62-89: where the header goes, None when it is not copied
DestPath(dir, h) ==
    LET dest_path == unique_name(h)
    IN  IF dest_path \in DOMAIN dir
        THEN IF filecmp(dir, dest_path, h.data)
             THEN None
             ELSE NewDestPath(dir, dest_path, h.data, 1)
        ELSE dest_path

\* shutil.copy2(header_file, dest_path)
Copy2(dir, dest_path, data) ==
    [n \in DOMAIN dir \cup {dest_path} |-> IF n = dest_path THEN data ELSE dir[n]]

InitCopy ==
    /\ header_files \in Listings
    /\ dest_dir \in InitialDests
    /\ next_header = 1
    /\ run = 1
    /\ total_copied_count = 0
    /\ first_run_dest = <<>>
    /\ SplitterIdle
    /\ LabelsIdle
    /\ MainIdle
    /\ VerifyIdle
    /\ DataIdle
    /\ TaskIdle

\* one iteration of the loop of line 49; an unreadable source raises in
\* filecmp.cmp or in shutil.copy2 and the except of line 96 goes on
CopyHeader ==
    /\ run \in {1, 2}
    /\ next_header <= Len(header_files)
    /\ LET source_file == header_files[next_header]
           dest_path == DestPath(dest_dir, source_file)
       IN  IF source_file.readable /\ dest_path # None
           THEN /\ dest_dir' = Copy2(dest_dir, dest_path, source_file.data)
                /\ total_copied_count' = total_copied_count + 1
           ELSE UNCHANGED <<dest_dir, total_copied_count>>
    /\ next_header' = next_header + 1
    /\ UNCHANGED <<header_files, run, first_run_dest>>
    /\ UNCHANGED copyFrame

\* the script is started again, the sources as they were
SecondRun ==
    /\ run = 1
    /\ next_header > Len(header_files)
    /\ run' = 2
    /\ next_header' = 1
    /\ total_copied_count' = 0
    /\ first_run_dest' = dest_dir
    /\ UNCHANGED <<header_files, dest_dir>>
    /\ UNCHANGED copyFrame

NextCopy == CopyHeader \/ SecondRun

SpecCopy == InitCopy /\ [][NextCopy]_vars

-----------------------------------------------------------------------------
(* C11, C12: copying headers                                                *)

\* two readable source headers get the same destination name and differ
NameCollision ==
    \E a, b \in 1..Len(header_files) :
        /\ a < b
        /\ header_files[a].readable
        /\ header_files[b].readable
        /\ unique_name(header_files[a]) = unique_name(header_files[b])
        /\ header_files[a].data # header_files[b].data

\* C11: find_and_copy_headers is idempotent: the second run over unchanged
\* sources, on the destination the first run produced, copies no file and
\* leaves the destination folder as it was.
C11_SecondRunCopiesNothing ==
    run = 2 => /\ total_copied_count = 0
               /\ dest_dir = first_run_dest

C11_Witness ==
    /\ run = 2
    /\ next_header > Len(header_files)
    /\ NameCollision
    /\ Len(header_files) = 3
    /\ <<"Pods", "X", "2">> \in DOMAIN dest_dir

\* the k-th name tried for a header: the computed name, then <base>_<k><ext>
NumberedName(base, k) == IF k = 0 THEN base ELSE base \o <<ToString(k)>>

\* C12: find_and_copy_headers never overwrites a destination file.  A readable
\* header whose computed name exists with other content is written to the first
\* name <base>_<k><ext>, k = 1, 2, ..., that does not exist, every name before it
\* existing with other content; it is skipped when a file of identical content
\* is met at the base name or at a k before a free name.  So every header
\* handled so far has a file of its content under its base name or a numbered one.
C12_NeverOverwrites ==
    [][/\ \A n \in DOMAIN dest_dir : n \in DOMAIN dest_dir' /\ dest_dir'[n] = dest_dir[n]
       /\ (next_header' = next_header + 1) =>
            LET h == header_files[next_header]
                base == unique_name(h)
                Taken(k) == NumberedName(base, k) \in DOMAIN dest_dir
                Same(k) == Taken(k) /\ dest_dir[NumberedName(base, k)] = h.data
                Differs(k) == Taken(k) /\ dest_dir[NumberedName(base, k)] # h.data
            IN  /\ (h.readable /\ Same(0)) => dest_dir' = dest_dir
                /\ (h.readable /\ Differs(0)) =>
                     \E k \in 1..(Cardinality(DOMAIN dest_dir) + 1) :
                         /\ \A j \in 0..(k - 1) : Differs(j)
                         /\ \/ /\ ~Taken(k)
                               /\ DOMAIN dest_dir' = DOMAIN dest_dir \cup {NumberedName(base, k)}
                               /\ dest_dir'[NumberedName(base, k)] = h.data
                            \/ /\ Same(k)
                               /\ dest_dir' = dest_dir
                /\ \A a \in 1..next_header :
                     header_files[a].readable =>
                         \E k \in 0..Cardinality(DOMAIN dest_dir') :
                             /\ NumberedName(unique_name(header_files[a]), k) \in DOMAIN dest_dir'
                             /\ dest_dir'[NumberedName(unique_name(header_files[a]), k)]
                                    = header_files[a].data]_vars

C12_Witness ==
    /\ run = 1
    /\ next_header > Len(header_files)
    /\ NameCollision
    /\ \E a, b \in 1..Len(header_files) :
          /\ a < b
          /\ unique_name(header_files[a]) = <<"Pods", "X">>
          /\ unique_name(header_files[b]) = <<"Pods", "X">>
          /\ header_files[a].readable
          /\ header_files[b].readable
          /\ header_files[a].data # header_files[b].data
          /\ \E m, n \in DOMAIN dest_dir :
                /\ m # n
                /\ dest_dir[m] = header_files[a].data
                /\ dest_dir[n] = header_files[b].data

-----------------------------------------------------------------------------
(* C13, C20: the retry loop of process_single_file                          *)

\* the return statements of process_single_file
Messages == {"skipped", "file_error", "empty", "done", "json_error", "api_error", "exception"}

\* the attempt ended in an exception: ask raised, or save_content did
EndedInException(a) == a.kind = "raised" \/ (a.kind = "answered" /\ ~a.saved)

\* C13: for one header file process_single_file calls GeminiHandler.ask at most
\* MAX_RETRIES (3) times; a further attempt is made only after an exception
\* raised by the call or by saving the result; the third attempt always ends
\* the call, with failure when it failed; whatever happens, the call returns a
\* (bool, message) pair.
C13_BoundedRetry ==
    [][\A h \in Headers :
          /\ ask_calls'[h] <= MAX_RETRIES
          /\ (ask_calls'[h] = ask_calls[h] + 1 /\ ask_calls[h] >= 1) =>
                EndedInException(last_ask[h])
          /\ (ask_calls'[h] = ask_calls[h] + 1 /\ ask_calls'[h] = MAX_RETRIES) =>
                /\ lpc'[h] = "returned"
                /\ EndedInException(last_ask'[h]) => ~result'[h].ok
          /\ lpc'[h] = "returned" => result'[h] \in [ok : BOOLEAN, msg : Messages]]_vars

C13_Witness ==
    \E h \in Headers :
        /\ ask_calls[h] = MAX_RETRIES
        /\ lpc[h] = "returned"
        /\ last_ask[h] = Raised
        /\ result[h] = Returned(FALSE, "api_error")

\* the response is not valid JSON once the json fence is stripped
NotJson(response_text) == Strip(CleanResponse(response_text)) \notin JsonTexts

\* the latest attempt of the call for h got a response that is not JSON
GotNotJson(a) == a.kind = "answered" /\ NotJson(a.response)

\* C20: when the response is not valid JSON after the json fence is stripped,
\* process_single_file writes the raw response to the sibling .txt file (the
\* write succeeding), creates no .json label file and returns failure; no
\* further API call is made for the file in that run; the next run does not
\* skip the file: it goes on to the retry loop, whose every step is an API call.
C20_JsonErrorExit ==
    [][\A h \in Headers :
          /\ (ask_calls'[h] = ask_calls[h] + 1 /\ GotNotJson(last_ask'[h])) =>
                /\ last_ask'[h].saved => txt_file'[h] = FileOf(last_ask'[h].response)
                /\ ~json_file'[h].exists
                /\ lpc'[h] = "returned"
                /\ ~result'[h].ok
          /\ (lpc[h] = "returned" /\ GotNotJson(last_ask[h])) =>
                ask_calls'[h] = ask_calls[h]
          /\ (lpc[h] = "idle" /\ lpc'[h] # "idle" /\ GotNotJson(last_ask[h])) =>
                /\ result'[h].msg # "skipped"
                /\ lpc'[h] = "attempt" \/ result'[h].msg = "file_error"
          /\ (lpc[h] = "attempt" /\ <<lpc[h], attempt[h]>> # <<lpc'[h], attempt'[h]>>) =>
                ask_calls'[h] = ask_calls[h] + 1]_vars

C20_Witness ==
    \E h \in Headers :
        /\ txt_file[h] = FileOf(RespFencedProse)
        /\ ~json_file[h].exists
        /\ ask_calls[h] = 1
        /\ last_ask[h] = Raised

-----------------------------------------------------------------------------
(* SpecVerify: verify_jsonl.verify_jsonl_file(file_path, detailed_analysis) *)

\* the JSON texts of the model whose root json.loads gives as a dict
JsonDicts == {TxtMarker, TxtLabel, TxtTen, TxtEleven, TxtInstruction, TxtEntry, TxtAst}

\* isinstance(json_obj, dict)
IsDict(text) == Strip(text) \in JsonDicts

\* type of json_obj[key] for the objects of the model, "absent" without the key
FieldType(text, key) ==
    IF key = "instruction" /\ Strip(text) \in {TxtInstruction, TxtEntry} THEN "str"
    ELSE IF key = "input" /\ Strip(text) = TxtEntry THEN "str"
    ELSE "absent"

\* the issues analyze_json_structure lists (no object of the model has a dict
\* as output, so lines 31-37 add nothing)
analyze_json_structure(text) ==
    IF ~IsDict(text)
    THEN {"root_not_dict"}
    ELSE (IF FieldType(text, "instruction") = "absent" THEN {"missing_instruction"}
          ELSE IF FieldType(text, "instruction") # "str" THEN {"instruction_type"}
          ELSE {})
         \cup (IF FieldType(text, "input") \notin {"absent", "dict"}
               THEN {"input_type"} ELSE {})
         \cup (IF FieldType(text, "output") \notin {"absent", "str", "dict"}
               THEN {"output_type"} ELSE {})

\* line 97: the loop stops at the tenth invalid line
ErrorLimit == 10

\* lines of a .jsonl file
VlBlank == <<"\n">>
VlSpaces == TxtSpaces
VlInstruction == TxtInstruction \o <<"\n">>
VlEntry == TxtEntry \o <<"\n">>
VlLabel == TxtLabel \o <<"\n">>
VlIdents == TxtIdents \o <<"\n">>
VlGarbage == TxtGarbage \o <<"\n">>
VlUndecodable == TxtUndecodable \o <<"\n">>
JsonlPool == {VlBlank, VlSpaces, VlInstruction, VlEntry, VlLabel, VlIdents, VlGarbage,
              VlUndecodable}

MaxJsonlLines == 3

NoJsonl == [exists |-> FALSE, lines |-> <<>>]
JsonlOf(ls) == [exists |-> TRUE, lines |-> ls]

\* a file with more invalid lines than the loop reads
ElevenBadLines == [k \in 1..(ErrorLimit + 1) |-> VlGarbage]

JsonlFiles ==
    {NoJsonl, JsonlOf(ElevenBadLines)}
        \cup {JsonlOf(ls) : ls \in Files(JsonlPool, MaxJsonlLines)}

NoVerdict == [ret |-> FALSE, msg |-> "none"]
Verdict(r, m) == [ret |-> r, msg |-> m]

InitVerify ==
    /\ jsonl_file \in JsonlFiles
    /\ detailed_analysis \in BOOLEAN
    /\ total_lines = 0
    /\ empty_lines = 0
    /\ valid_lines = 0
    /\ invalid_lines = 0
    /\ structure_issues = 0
    /\ vpc = "idle"
    /\ verdict = NoVerdict
    /\ SplitterIdle
    /\ LabelsIdle
    /\ MainIdle
    /\ CopyIdle
    /\ DataIdle
    /\ TaskIdle

\* lines 46-65: the existence test and the counters
VerifyStart ==
    /\ vpc = "idle"
    /\ IF ~jsonl_file.exists
       THEN /\ verdict' = Verdict(FALSE, "not_found")
            /\ vpc' = "returned"
       ELSE /\ vpc' = "reading"
            /\ UNCHANGED verdict
    /\ UNCHANGED <<jsonl_file, detailed_analysis, total_lines, empty_lines, valid_lines,
                   invalid_lines, structure_issues>>
    /\ UNCHANGED verifyFrame

\* lines 69-99: one iteration of the loop over the lines; a line that is not
\* UTF-8 raises in the iteration and the except of line 101 returns False
VerifyLine ==
    /\ vpc = "reading"
    /\ total_lines < Len(jsonl_file.lines)
    /\ LET line == jsonl_file.lines[total_lines + 1]
       IN  IF ~Decodable(line)
           THEN /\ verdict' = Verdict(FALSE, "read_error")
                /\ vpc' = "returned"
                /\ UNCHANGED <<total_lines, empty_lines, valid_lines, invalid_lines,
                               structure_issues>>
           ELSE /\ total_lines' = total_lines + 1
                /\ UNCHANGED verdict
                /\ IF Strip(line) = <<>>
                   THEN /\ empty_lines' = empty_lines + 1
                        /\ UNCHANGED <<valid_lines, invalid_lines, structure_issues, vpc>>
                   ELSE IF JsonLoadsOk(line)
                   THEN /\ valid_lines' = valid_lines + 1
                        /\ structure_issues' =
                               IF detailed_analysis /\ analyze_json_structure(line) # {}
                               THEN structure_issues + 1
                               ELSE structure_issues
                        /\ UNCHANGED <<empty_lines, invalid_lines, vpc>>
                   ELSE /\ invalid_lines' = invalid_lines + 1
                        /\ vpc' = IF invalid_lines + 1 >= ErrorLimit THEN "summary" ELSE vpc
                        /\ UNCHANGED <<empty_lines, valid_lines, structure_issues>>
    /\ UNCHANGED <<jsonl_file, detailed_analysis>>
    /\ UNCHANGED verifyFrame

\* lines 105-126: the summary and the return value
VerifySummary ==
    /\ \/ vpc = "summary"
       \/ vpc = "reading" /\ total_lines = Len(jsonl_file.lines)
    /\ vpc' = "returned"
    /\ verdict' =
          IF invalid_lines = 0 /\ total_lines > 0
          THEN IF structure_issues = 0 \/ ~detailed_analysis
               THEN Verdict(TRUE, "success")
               ELSE Verdict(TRUE, "structure_warning")
          ELSE IF total_lines = 0
          THEN Verdict(TRUE, "empty_warning")
          ELSE Verdict(FALSE, "failure")
    /\ UNCHANGED <<jsonl_file, detailed_analysis, total_lines, empty_lines, valid_lines,
                   invalid_lines, structure_issues>>
    /\ UNCHANGED verifyFrame

NextVerify == VerifyStart \/ VerifyLine \/ VerifySummary

SpecVerify == InitVerify /\ [][NextVerify]_vars

-----------------------------------------------------------------------------
(* C14: the success verdict                                                 *)

\* C14: when verify_jsonl_file returns True with the message that all lines are
\* valid JSON objects, every non-empty line of the file parses as a JSON object
\* (a dictionary) and the file has at least one such line.
C14_SuccessMeansObjects ==
    (vpc = "returned" /\ verdict = Verdict(TRUE, "success")) =>
        /\ \A k \in 1..Len(jsonl_file.lines) :
              Strip(jsonl_file.lines[k]) # <<>> =>
                  /\ JsonLoadsOk(jsonl_file.lines[k])
                  /\ IsDict(jsonl_file.lines[k])
        /\ \E k \in 1..Len(jsonl_file.lines) :
              /\ JsonLoadsOk(jsonl_file.lines[k])
              /\ IsDict(jsonl_file.lines[k])

-----------------------------------------------------------------------------
(* SpecData: the header dataset scripts run one after another over the      *)
(* folders input_headers, processed_headers and output_labels:              *)
(* split_large_files, create_labels_fast, build_alpaca_dataset              *)

\* A folder: not there, or a directory with its files.  A file name is the
\* sequence of its "_"-separated pieces without the suffix: <<"A", "part1">>
\* is A_part1.h in a header folder and A_part1.json in output_labels.  A
\* header is kept as its list of lines, a label as its text.
NoDir == [is_dir |-> FALSE, files |-> <<>>]
Dir(files) == [is_dir |-> TRUE, files |-> files]

\* "".join(lines)
RECURSIVE Join(_)
Join(ls) == IF ls = <<>> THEN <<>> ELSE Head(ls) \o Join(Tail(ls))

\* SIZE_THRESHOLD_KB * 1024 and MIN_PART_SIZE_KB * 1024, scaled down to the
\* lines of the model
ThresholdBytes == 10
MinPartBytes == 2

\* headers: below the threshold, blank, above it with a safe split point,
\* above it without any split point, below it and not UTF-8
HdrSmall == <<LnStmt>>
HdrBlank == <<LnSpaces>>
HdrBig == <<LnStmt, LnStmt, LnStructEnd, LnBlank, LnStmt, LnStructEnd>>
HdrLong == <<LnPlain, LnPlain, LnPlain, LnPlain>>
HdrLatin == <<<<"a", "byte-ff", ";", "\n">>>>

\* find_safe_split_points as a function of its arguments: the loop of lines
\* 19-37 from line k on, size bytes counted since the last split
RECURSIVE SplitPointsFrom(_, _, _, _, _, _)
SplitPointsFrom(ls, threshold, min_bytes, k, size_before, points) ==
    IF k >= Len(ls)
    THEN points
    ELSE LET line == At(ls, k)
             size == size_before + Utf8Len(line)
         IN  IF IsSplitCandidate(size, threshold, line)
             THEN IF /\ is_safe_split_location(ls, k)
                     /\ RemainderAccepted(BytesFrom(ls, k + 1), min_bytes)
                  THEN SplitPointsFrom(ls, threshold, min_bytes, k + 1, 0,
                                       Append(points, k + 1))
                  ELSE SplitPointsFrom(ls, threshold, min_bytes, k + 1, size, points)
             ELSE IF IsForcedSplit(size, threshold)
                  THEN SplitPointsFrom(ls, threshold, min_bytes, k + 1, 0,
                                       Append(points, k + 1))
                  ELSE SplitPointsFrom(ls, threshold, min_bytes, k + 1, size, points)

find_safe_split_points(ls, threshold, min_bytes) ==
    SplitPointsFrom(ls, threshold, min_bytes, 0, 0, <<>>)

\* lines[a:b]
Slice(ls, a, b) == SubSeq(ls, a + 1, b)

\* split_file_into_parts lines 116-131: the parts that are not blank
RECURSIVE PartsFrom(_, _, _, _)
PartsFrom(ls, points, k, start_idx) ==
    IF k > Len(points)
    THEN IF start_idx < Len(ls) /\ Strip(Join(Slice(ls, start_idx, Len(ls)))) # <<>>
         THEN <<Slice(ls, start_idx, Len(ls))>>
         ELSE <<>>
    ELSE LET part == Slice(ls, start_idx, points[k])
         IN  (IF Strip(Join(part)) # <<>> THEN <<part>> ELSE <<>>)
                 \o PartsFrom(ls, points, k + 1, points[k])

split_file_into_parts(ls, threshold, min_bytes) ==
    LET points == find_safe_split_points(ls, threshold, min_bytes)
    IN  IF points = <<>> THEN <<ls>> ELSE PartsFrom(ls, points, 1, 0)

\* f"{header_path.stem}_part{part_num}.h"
PartName(stem, part_num) == stem \o <<"part" \o ToString(part_num)>>

\* the files split_large_files writes for one header (lines 162-191), as a set
\* of <<name, content>>
FilesFor(name, ls) ==
    IF BytesFrom(ls, 0) <= ThresholdBytes
    THEN {<<name, ls>>}
    ELSE LET parts == split_file_into_parts(ls, ThresholdBytes, MinPartBytes)
         IN  IF Len(parts) = 1
             THEN {<<name, ls>>}
             ELSE {<<PartName(name, n), parts[n]>> : n \in 1..Len(parts)}

\* a folder's files after the files of the set ws are written into it
Written(files, ws) ==
    [n \in DOMAIN files \cup {w[1] : w \in ws} |->
        IF \E w \in ws : w[1] = n
        THEN (CHOOSE w \in ws : w[1] = n)[2]
        ELSE files[n]]

\* file_path.read_text: utf-8 if the bytes allow it, latin-1 otherwise
Latin1Char(c) ==
    IF c = "byte-ff" THEN <<"y-diaeresis">>
    ELSE IF c = "e-acute" THEN <<"A-tilde", "copyright-sign">>
    ELSE <<c>>

RECURSIVE Latin1(_)
Latin1(data) == IF data = <<>> THEN <<>> ELSE Latin1Char(Head(data)) \o Latin1(Tail(data))

read_file_with_encoding(ls) ==
    IF Decodable(Join(ls)) THEN Join(ls) ELSE Latin1(Join(ls))

\* create_alpaca_dataset.INSTRUCTION, kept as one piece of text
INSTRUCTION == <<"Extract all public API identifiers from the Objective-C header file that must be excluded from obfuscation.">>

\* json.dumps of a str with ensure_ascii=False
JsonEscape(c) ==
    IF c = "\"" THEN <<"\\", "\"">>
    ELSE IF c = "\\" THEN <<"\\", "\\">>
    ELSE IF c = "\n" THEN <<"\\", "n">>
    ELSE IF c = "\r" THEN <<"\\", "r">>
    ELSE IF c = "\t" THEN <<"\\", "t">>
    ELSE <<c>>

RECURSIVE JsonEscaped(_)
JsonEscaped(text) ==
    IF text = <<>> THEN <<>> ELSE JsonEscape(Head(text)) \o JsonEscaped(Tail(text))

\* the text between quotes, nothing escaped
JsonStringUnescaped(text) == <<"\"">> \o text \o <<"\"">>

JsonString(text) == <<"\"">> \o JsonEscaped(text) \o <<"\"">>

\* json.dumps(data_entry, ensure_ascii=False): the object is kept as the record
\* of its members, each value as the JSON string written for it
data_entry(header_content, label_content_string) ==
    [instruction |-> JsonString(INSTRUCTION),
     input |-> JsonString(header_content),
     output |-> JsonString(label_content_string)]

\* the order in which glob lists the files of a folder
RECURSIVE Listing(_)
Listing(names) ==
    IF names = {} THEN <<>>
    ELSE LET n == CHOOSE n \in names : TRUE
         IN  <<n>> \o Listing(names \ {n})

\* lines 69-83: the header gets a line
GetsEntry(headers, labels, n) ==
    /\ n \in DOMAIN labels
    /\ Decodable(labels[n])
    /\ Strip(read_file_with_encoding(headers[n])) # <<>>
    /\ Strip(labels[n]) # <<>>
    /\ JsonLoadsOk(labels[n])

RECURSIVE Keep(_, _, _)
Keep(listing, headers, labels) ==
    IF listing = <<>> THEN <<>>
    ELSE (IF GetsEntry(headers, labels, Head(listing)) THEN <<Head(listing)>> ELSE <<>>)
             \o Keep(Tail(listing), headers, labels)

\* the folders before the first script runs
InputPool == {HdrSmall, HdrBlank, HdrBig, HdrLong}
InputFolders ==
    {NoDir, Dir(<<>>)}
        \cup {Dir([n \in {<<"A">>} |-> h]) : h \in InputPool}
        \cup {Dir([n \in {<<"A">>, <<"B">>} |-> IF n = <<"A">> THEN h ELSE HdrSmall]) :
                  h \in InputPool}

ProcessedFolders ==
    {NoDir, Dir(<<>>)}
        \cup {Dir([n \in {<<"A">>} |-> h]) : h \in {HdrSmall, HdrBlank, HdrLatin}}
        \cup {Dir([n \in {<<"A">>, <<"C">>} |-> HdrSmall])}

LabelTexts == {TxtIdents, VlIdents, TxtGarbage, TxtSpaces, TxtUndecodable}
LabelFolders ==
    {NoDir, Dir(<<>>)} \cup {Dir([n \in {<<"A">>} |-> t]) : t \in LabelTexts}

MaxScripts == 3

InitData ==
    /\ input_headers \in InputFolders
    /\ processed_headers \in ProcessedFolders
    /\ output_labels \in LabelFolders
    /\ header_jsonl = Absent
    /\ entry_of = <<>>
    /\ placed = {}
    /\ history = <<>>
    /\ SplitterIdle
    /\ LabelsIdle
    /\ MainIdle
    /\ CopyIdle
    /\ VerifyIdle
    /\ TaskIdle

\* split_large_headers.split_large_files; a header whose copy or split raises
\* is passed over (line 193)
SplitLargeFiles ==
    /\ Len(history) < MaxScripts
    /\ history' = Append(history, "split")
    /\ IF ~input_headers.is_dir
       THEN UNCHANGED <<processed_headers, placed>>
       ELSE \E failing \in SUBSET DOMAIN input_headers.files :
              LET ws == UNION {FilesFor(n, input_headers.files[n]) :
                                  n \in DOMAIN input_headers.files \ failing}
              IN  /\ processed_headers' = Dir(Written(processed_headers.files, ws))
                  /\ placed' = {w[1] : w \in ws}
    /\ UNCHANGED <<input_headers, output_labels, header_jsonl, entry_of>>
    /\ UNCHANGED dataFrame

\* generate_labels.create_labels_fast: process_single_file for every header of
\* input_headers; answered are the headers for which the API gives valid JSON
\* within the retries and the label is saved
CreateLabelsFast ==
    /\ Len(history) < MaxScripts
    /\ IF ~input_headers.is_dir
       THEN /\ history' = Append(history, "labels")
            /\ UNCHANGED output_labels
       ELSE \E answered \in SUBSET DOMAIN input_headers.files :
              LET asked == {n \in DOMAIN input_headers.files :
                               /\ n \notin DOMAIN output_labels.files
                               /\ Strip(read_file_with_encoding(input_headers.files[n])) # <<>>}
                  ws == {<<n, CleanResponse(RespFenced)>> : n \in asked \cap answered}
              IN  /\ output_labels' = Dir(Written(output_labels.files, ws))
                  /\ history' = Append(history,
                         IF answered = DOMAIN input_headers.files
                         THEN "labels_all_answered" ELSE "labels")
    /\ UNCHANGED <<input_headers, processed_headers, header_jsonl, entry_of, placed>>
    /\ UNCHANGED dataFrame

\* create_alpaca_dataset.build_alpaca_dataset
BuildAlpacaDataset ==
    /\ Len(history) < MaxScripts
    /\ history' = Append(history, "alpaca")
    /\ IF \/ ~processed_headers.is_dir
          \/ ~output_labels.is_dir
          \/ DOMAIN processed_headers.files = {}
       THEN /\ entry_of' = <<>>
            /\ UNCHANGED header_jsonl
       ELSE LET kept == Keep(Listing(DOMAIN processed_headers.files),
                             processed_headers.files, output_labels.files)
            IN  /\ entry_of' = kept
                /\ header_jsonl' =
                      FileOf([k \in 1..Len(kept) |->
                          data_entry(read_file_with_encoding(processed_headers.files[kept[k]]),
                                     output_labels.files[kept[k]])])
    /\ UNCHANGED <<input_headers, processed_headers, output_labels, placed>>
    /\ UNCHANGED dataFrame

NextData == SplitLargeFiles \/ CreateLabelsFast \/ BuildAlpacaDataset

SpecData == InitData /\ [][NextData]_vars

-----------------------------------------------------------------------------
(* C15, C19: the header dataset                                             *)

\* the script run last
LastScript == IF history = <<>> THEN "none" ELSE history[Len(history)]

\* the str a JSON string stands for; a quote that is not escaped, a lone
\* backslash or an unknown escape leaves the piece "not-a-string" in it
RECURSIVE JsonUnescaped(_)
JsonUnescaped(body) ==
    IF body = <<>> THEN <<>>
    ELSE IF Head(body) = "\"" THEN <<"not-a-string">>
    ELSE IF Head(body) # "\\" THEN <<Head(body)>> \o JsonUnescaped(Tail(body))
    ELSE IF Len(body) < 2 THEN <<"not-a-string">>
    ELSE LET c == body[2]
             rest == JsonUnescaped(SubSeq(body, 3, Len(body)))
         IN  IF c = "n" THEN <<"\n">> \o rest
             ELSE IF c = "r" THEN <<"\r">> \o rest
             ELSE IF c = "t" THEN <<"\t">> \o rest
             ELSE IF c \in {"\"", "\\"} THEN <<c>> \o rest
             ELSE <<"not-a-string">>

JsonStringValue(literal) ==
    IF Len(literal) < 2 \/ literal[1] # "\"" \/ literal[Len(literal)] # "\""
    THEN <<"not-a-string">>
    ELSE JsonUnescaped(SubSeq(literal, 2, Len(literal) - 1))

\* the header n of processed_headers has a label of its name, header text and
\* label text are not blank, and the label parses as JSON
Labelled(n) ==
    /\ n \in DOMAIN output_labels.files
    /\ Strip(read_file_with_encoding(processed_headers.files[n])) # <<>>
    /\ Decodable(output_labels.files[n])
    /\ Strip(output_labels.files[n]) # <<>>
    /\ JsonLoadsOk(output_labels.files[n])

\* C15: build_alpaca_dataset writes exactly one line for each header of
\* processed_headers that has a label of its name in output_labels, header text
\* and label text both not blank and the label parsing as JSON, and no line for
\* any other header; each line is an object with exactly the keys instruction
\* (the INSTRUCTION text), input (the header text) and output (the label text as
\* it is in the file).
C15_OneLinePerLabelledHeader ==
    LastScript = "alpaca" =>
        /\ \A n \in DOMAIN processed_headers.files :
              Cardinality({k \in 1..Len(entry_of) : entry_of[k] = n})
                  = IF Labelled(n) THEN 1 ELSE 0
        /\ \A k \in 1..Len(entry_of) : entry_of[k] \in DOMAIN processed_headers.files
        /\ (/\ processed_headers.is_dir
            /\ output_labels.is_dir
            /\ DOMAIN processed_headers.files # {}) =>
              /\ header_jsonl.exists
              /\ Len(header_jsonl.data) = Len(entry_of)
              /\ \A k \in 1..Len(entry_of) :
                    LET entry == header_jsonl.data[k]
                    IN  /\ DOMAIN entry = {"instruction", "input", "output"}
                        /\ JsonStringValue(entry.instruction) = INSTRUCTION
                        /\ JsonStringValue(entry.input) =
                               read_file_with_encoding(processed_headers.files[entry_of[k]])
                        /\ JsonStringValue(entry.output) = output_labels.files[entry_of[k]]

C15_Witness ==
    /\ LastScript = "alpaca"
    /\ Len(entry_of) = 1
    /\ Cardinality(DOMAIN processed_headers.files) = 2
    /\ header_jsonl.exists
    /\ Len(header_jsonl.data) = 1
    /\ JsonStringValue(header_jsonl.data[1].output) = VlIdents

\* C19: once split_large_files, then create_labels_fast with every API call
\* answered, then build_alpaca_dataset have run, every header that
\* split_large_files placed in processed_headers and that is not blank, the
\* _partN files included, has a label file of its name in output_labels.
C19_PlacedHeadersLabelled ==
    history = <<"split", "labels_all_answered", "alpaca">> =>
        \A n \in placed :
            Strip(read_file_with_encoding(processed_headers.files[n])) # <<>> =>
                n \in DOMAIN output_labels.files

-----------------------------------------------------------------------------
(* C16, C17, C18: failures of the sample pipeline                           *)

\* C16: process_and_save_sample never raises, whatever task it is given: every
\* failure ends in a message and an early return, so the thread pool is never
\* aborted and main_pipeline always goes on to assemble_final_dataset.
C16_NeverRaises ==
    /\ outcome # "raised"
    /\ mpc # "aborted"

\* json.loads('{"error": "generation_failed"}')
FailureMarker == JsonLoads(TxtMarker)

\* C17: a task whose label request failed in one run, with the failure marker
\* written to its label file, is not skipped by the call of the next run: the
\* marker is not taken for an existing valid label.
C17_FailedLabelProcessedAgain ==
    [][(/\ mpc = "idle"
        /\ mpc' = "returned"
        /\ outcome = "label_failed"
        /\ label_file = FileOf(TxtMarker)) => outcome' # "skipped"]_vars

\* C18: no entry of a final dataset has the label-generation failure marker as
\* its output.
C18_NoMarkerInDataset ==
    \A k \in 1..Len(dataset) : dataset[k].output # FailureMarker

-----------------------------------------------------------------------------
(* SpecTasks: main.create_generation_tasks(rules), and the paths            *)
(* process_and_save_sample makes from a task's filename                     *)

\* A name is written as the sequence of its "_"-separated pieces, so that an
\* f-string joining names with "_" is the concatenation of the sequences:
\* <<"A", "B">> is the name A_B.
ReasonNames == {<<"A">>, <<"B">>, <<"A", "B">>}
PatternNames == {<<"P">>, <<"B", "P">>}

MaxReasons == 2
MaxPatterns == 2
MaxEvidence == 1

SeqsUpTo(S, n) == UNION {[1..k -> S] : k \in 0..n}

\* the keys of a dict: no key twice
Distinct(keys) == \A a, b \in 1..Len(keys) : a # b => keys[a] # keys[b]

\* the value of one key of "L2_Patterns": its name and its "sufficiency_rules"
L2Contents ==
    [l2 : PatternNames,
     sufficient_combinations : SeqsUpTo({<<"e">>}, MaxEvidence),
     insufficient_single_evidence : SeqsUpTo({"e"}, MaxEvidence)]

\* a dict has each key once
L2Dicts == {ps \in SeqsUpTo(L2Contents, MaxPatterns) : Distinct([k \in 1..Len(ps) |-> ps[k].l2])}

L1Contents == [l1 : ReasonNames, L2_Patterns : L2Dicts]

\* the rules dictionaries of at most n reasons
RulesDicts(n) ==
    {rs \in SeqsUpTo(L1Contents, n) : Distinct([k \in 1..Len(rs) |-> rs[k].l1])}

RECURSIVE Flat(_)
Flat(ss) == IF ss = <<>> THEN <<>> ELSE Head(ss) \o Flat(Tail(ss))

\* lines 266-270: every L2 pattern with its "l1_reason" and "l2_pattern"
AllL2Patterns(rs) ==
    Flat([a \in 1..Len(rs) |->
            [b \in 1..Len(rs[a].L2_Patterns) |->
                LET l2_content == rs[a].L2_Patterns[b]
                IN  [l1_reason |-> rs[a].l1,
                     l2_pattern |-> l2_content.l2,
                     sufficient_combinations |-> l2_content.sufficient_combinations,
                     insufficient_single_evidence |->
                         l2_content.insufficient_single_evidence]]])

\* lines 272-296: the tasks of one pattern
PatternTasks(pattern) ==
    LET stem == pattern.l1_reason \o pattern.l2_pattern
    IN  [k \in 1..Len(pattern.sufficient_combinations) |->
            [type |-> "Sufficient_Positive",
             content |-> [pattern |-> pattern,
                          evidence |-> pattern.sufficient_combinations[k]],
             filename |-> stem \o <<"sufficient", ToString(k - 1)>>]]
        \o
        [k \in 1..Len(pattern.insufficient_single_evidence) |->
            [type |-> "Insufficient_Positive",
             content |-> [pattern |-> pattern,
                          evidence |-> <<pattern.insufficient_single_evidence[k]>>],
             filename |-> stem \o <<"insufficient", ToString(k - 1)>>]]
        \o
        << [type |-> "Clear_Negative",
            content |-> [pattern |-> pattern],
            filename |-> stem \o <<"negative">>] >>

\* itertools.combinations(range(1, n + 1), 2) from the pair <<a, b>> on
RECURSIVE CombinationsFrom(_, _, _)
CombinationsFrom(a, b, n) ==
    IF a >= n THEN <<>>
    ELSE IF b > n THEN CombinationsFrom(a + 1, a + 2, n)
    ELSE <<<<a, b>>>> \o CombinationsFrom(a, b + 1, n)

\* line 300: f"COMBINED_{p1['l2_pattern']}_{p2['l2_pattern']}"
CombinedName(p1, p2) == <<"COMBINED">> \o p1.l2_pattern \o p2.l2_pattern

\* lines 298-305
CombinedTasks(all_l2_patterns) ==
    LET pairs == CombinationsFrom(1, 2, Len(all_l2_patterns))
    IN  [k \in 1..Len(pairs) |->
            LET p1 == all_l2_patterns[pairs[k][1]]
                p2 == all_l2_patterns[pairs[k][2]]
            IN  [type |-> "Combined_Positive",
                 content |-> [pattern1 |-> p1, pattern2 |-> p2],
                 filename |-> CombinedName(p1, p2)]]

create_generation_tasks(rs) ==
    LET all_l2_patterns == AllL2Patterns(rs)
    IN  Flat([k \in 1..Len(all_l2_patterns) |-> PatternTasks(all_l2_patterns[k])])
        \o CombinedTasks(all_l2_patterns)

\* main_pipeline, line 596
GENERATORS_TO_RUN == {"gemini", "claude"}

\* process_and_save_sample lines 355-358 with get_generator_paths: the three
\* files of a task, each as <<folder, folder, name, suffix>>
SamplePaths(generator_type, filename) ==
    [code |-> <<"generated_code", generator_type \o "_generated", filename, ".swift">>,
     inputs |-> <<"inputs", generator_type \o "_generated", filename, ".txt">>,
     labels |-> <<"outputs", generator_type \o "_generated", filename, ".json">>]

InitTasks ==
    /\ rules \in RulesDicts(MaxReasons)
    /\ tasks = <<>>
    /\ gpc = "idle"
    /\ SplitterIdle
    /\ LabelsIdle
    /\ MainIdle
    /\ CopyIdle
    /\ VerifyIdle
    /\ DataIdle

\* tasks = create_generation_tasks(rules)
CreateGenerationTasks ==
    /\ gpc = "idle"
    /\ tasks' = create_generation_tasks(rules)
    /\ gpc' = "returned"
    /\ UNCHANGED rules
    /\ UNCHANGED taskFrame

NextTasks == CreateGenerationTasks

SpecTasks == InitTasks /\ [][NextTasks]_vars

\* C21: the tasks create_generation_tasks returns have pairwise distinct
\* filenames, whatever the rules dictionary: no two tasks of one generator
\* share a code, input or label path.
C21_DistinctFilenames ==
    gpc = "returned" =>
        \A a, b \in 1..Len(tasks) : a # b =>
            /\ tasks[a].filename # tasks[b].filename
            /\ \A g \in GENERATORS_TO_RUN :
                   LET pa == SamplePaths(g, tasks[a].filename)
                       pb == SamplePaths(g, tasks[b].filename)
                   IN  pa.code # pb.code /\ pa.inputs # pb.inputs /\ pa.labels # pb.labels

====
